---- MODULE Spec2Model ----
(***************************************************************************)
(* GitRepo (src/src/lib/utils/git-repo.ts): a facade over the git command  *)
(* line.  Strings are TLA+ strings handled character by character, so that *)
(* trimming, splitting, joining and prefix removal are computed as the     *)
(* JavaScript code computes them.                                          *)
(***************************************************************************)
EXTENDS Integers, Sequences, FiniteSets, TLC

VARIABLES
  destroyed,    \* session -> the private `destroyed` flag
  removals,     \* session -> number of times sh.rm('-rf', directory) has run
  credentials,  \* session -> content of the credentials file ("" = no file)
  cwd,          \* the process working directory
  dirStack,     \* shelljs' directory stack (pushd/popd)
  last,         \* the facade call that has just returned or thrown
  input,        \* the arguments drawn for a specification of a single call
  rendered      \* the command string the withOptions call has returned

vars == <<destroyed, removals, credentials, cwd, dirStack, last, input, rendered>>

----------------------------------------------------------------------------
(* Bounds *)

\* longest list value of an option
MaxList == 2
\* longest commit message, in characters (the placeholder counts as one)
MaxLen == 3
\* longest history of a repository a commit is made on
MaxHist == 2
\* longest branch listing, in lines
MaxLines == 3

----------------------------------------------------------------------------
(* String helpers: String.prototype.trim/split/join/startsWith/replace *)

Char(s, i) == SubSeq(s, i, i)

\* the characters String.prototype.trim removes that occur in the model
IsSpace(c) == c \in {" ", "\n", "\r", "\t"}

RECURSIVE TrimStart(_)
TrimStart(s) ==
  IF Len(s) > 0 /\ IsSpace(Char(s, 1)) THEN TrimStart(SubSeq(s, 2, Len(s))) ELSE s

RECURSIVE TrimEnd(_)
TrimEnd(s) ==
  IF Len(s) > 0 /\ IsSpace(Char(s, Len(s))) THEN TrimEnd(SubSeq(s, 1, Len(s) - 1)) ELSE s

Trim(s) == TrimEnd(TrimStart(s))

StartsWith(s, prefix) ==
  Len(prefix) <= Len(s) /\ SubSeq(s, 1, Len(prefix)) = prefix

EndsWith(s, suffix) ==
  Len(suffix) <= Len(s) /\ SubSeq(s, Len(s) - Len(suffix) + 1, Len(s)) = suffix

RECURSIVE Contains(_, _)
Contains(s, t) ==
  IF Len(t) > Len(s) THEN FALSE
  ELSE StartsWith(s, t) \/ Contains(SubSeq(s, 2, Len(s)), t)

\* Array.prototype.join
RECURSIVE Join(_, _)
Join(parts, sep) ==
  IF Len(parts) = 0 THEN ""
  ELSE IF Len(parts) = 1 THEN parts[1]
  ELSE parts[1] \o sep \o Join(Tail(parts), sep)

\* String.prototype.split with a non-empty string separator
RECURSIVE SplitFrom(_, _, _)
SplitFrom(s, sep, cur) ==
  IF Len(s) = 0 THEN <<cur>>
  ELSE IF StartsWith(s, sep)
       THEN <<cur>> \o SplitFrom(SubSeq(s, Len(sep) + 1, Len(s)), sep, "")
       ELSE SplitFrom(SubSeq(s, 2, Len(s)), sep, cur \o Char(s, 1))

Split(s, sep) == SplitFrom(s, sep, "")

\* String.prototype.split(/\r?\n/): the leftmost match wins, so a "\r" right
\* before a "\n" belongs to the separator
RECURSIVE SplitLinesFrom(_, _)
SplitLinesFrom(s, cur) ==
  IF Len(s) = 0 THEN <<cur>>
  ELSE IF StartsWith(s, "\r\n")
       THEN <<cur>> \o SplitLinesFrom(SubSeq(s, 3, Len(s)), "")
  ELSE IF StartsWith(s, "\n")
       THEN <<cur>> \o SplitLinesFrom(SubSeq(s, 2, Len(s)), "")
  ELSE SplitLinesFrom(SubSeq(s, 2, Len(s)), cur \o Char(s, 1))

SplitLines(s) == SplitLinesFrom(s, "")

\* replacement of every occurrence of a non-empty string, left to right
RECURSIVE ReplaceAll(_, _, _)
ReplaceAll(s, pat, rep) ==
  IF Len(s) = 0 THEN ""
  ELSE IF StartsWith(s, pat)
       THEN rep \o ReplaceAll(SubSeq(s, Len(pat) + 1, Len(s)), pat, rep)
       ELSE Char(s, 1) \o ReplaceAll(SubSeq(s, 2, Len(s)), pat, rep)

----------------------------------------------------------------------------
(* ICommnandOptions: an object is the sequence of its entries in iteration *)
(* order; an entry is [key, kind, val] with kind one of "true", "false",   *)
(* "undefined", "string", "list" and val the strings of the value.         *)

ARGS_KEY == "--"

Opt(key, kind, val) == [key |-> key, kind |-> kind, val |-> val]

NoOpts == <<>>

HasKey(opts, key) == \E i \in 1..Len(opts) : opts[i].key = key

\* the object spread {...opts, key: value}: an own key keeps its place
SetOpt(opts, e) ==
  IF HasKey(opts, e.key)
  THEN [i \in 1..Len(opts) |-> IF opts[i].key = e.key THEN e ELSE opts[i]]
  ELSE Append(opts, e)

\* normalizeValue (applied to retained values; a boolean false or undefined
\* reaching it would be interpolated as the text of the value)
normalizeValue(e) ==
  CASE e.kind = "true" -> <<"">>
    [] e.kind = "list" -> e.val
    [] e.kind = "string" -> e.val
    [] e.kind = "false" -> <<"false">>
    [] OTHER -> <<"undefined">>

\* a plausible slip: only `undefined` is filtered out
RetainedKeepsFalse(e) == e.kind # "undefined"

\* the filter of Object.entries(cmdOpts)
Retained(e) == (e.kind # "undefined") /\ (e.kind # "false")

\* a plausible slip: every flag gets two dashes
FlagNameAlwaysLong(key) == "--" \o key

FlagName(key) == IF Len(key) = 1 THEN "-" \o key ELSE "--" \o key

\* `cmdArgs && ...`: undefined, false and '' are falsy
Truthy(e) ==
  /\ e.kind \notin {"undefined", "false"}
  /\ ~(e.kind = "string" /\ e.val = <<"">>)

RenderValues(name, values) ==
  Join([i \in 1..Len(values) |-> Trim(name \o " " \o values[i])], " ")

withOptions(cmd, opts) ==
  LET argEntries == SelectSeq(opts, LAMBDA e : e.key = ARGS_KEY)
      cmdOpts == SelectSeq(opts, LAMBDA e : e.key # ARGS_KEY)
      hasArgs == Len(argEntries) > 0 /\ Truthy(argEntries[1])
      normalizedCmdOpts == SelectSeq(cmdOpts, Retained)
      withFlags ==
        IF Len(normalizedCmdOpts) > 0
        THEN cmd \o " " \o
             Join([i \in 1..Len(normalizedCmdOpts) |->
                     RenderValues(FlagName(normalizedCmdOpts[i].key),
                                  normalizeValue(normalizedCmdOpts[i]))], " ")
        ELSE cmd
  IN IF hasArgs
     THEN withFlags \o " -- " \o Join(normalizeValue(argEntries[1]), " ")
     ELSE withFlags

----------------------------------------------------------------------------
(* The sessions, the shell and the external tool *)

Sessions == {"s1", "s2"}

\* readonly directory: one directory per session
directory(s) == IF s = "s1" THEN "/work/aio" ELSE "/work/angular"

\* credentialsPath (the Date.now() suffix is fixed at construction)
credentialsPath(s) == directory(s) \o "/.git/.git-credentials--0"

\* NEWLINE_PLACEHOLDER of ../utils/constants
NEWLINE_PLACEHOLDER == "<NL>"

\* fix-commit-message-newlines: restores the newlines of a message
FixCommitMessageNewlines(msg) == ReplaceAll(msg, NEWLINE_PLACEHOLDER, "\n")

\* position of the first occurrence of t in s, 0 when there is none
RECURSIVE IndexFrom(_, _, _)
IndexFrom(s, t, i) ==
  IF i + Len(t) - 1 > Len(s) THEN 0
  ELSE IF SubSeq(s, i, i + Len(t) - 1) = t THEN i
  ELSE IndexFrom(s, t, i + 1)

IndexOf(s, t) == IndexFrom(s, t, 1)

\* the value the shell hands to git for the trailing option --message "..."
MessageArgument(cmd) ==
  LET flag == "--message \""
      i == IndexOf(cmd, flag)
  IN SubSeq(cmd, i + Len(flag), Len(cmd) - 1)

\* What the environment does with one command: kind "ok" (exit status 0),
\* "nonzero", or an exception raised while the command is being built
\* ("throwBuild"), logged ("throwLog") or run ("throwExec").
Throws == {"throwBuild", "throwLog", "throwExec"}

\* The external tool on the repository's commits (the messages, oldest
\* first).  `git commit` adds a commit when it succeeds, which takes a
\* non-empty message; `git filter-branch --msg-filter ... @~1..@` rewrites
\* the message of the current HEAD commit when it succeeds, which takes a
\* HEAD that has a parent.
GitTool(hist, cmd, out) ==
  IF out.kind # "ok" THEN hist
  ELSE IF StartsWith(cmd, "git commit") /\ MessageArgument(cmd) # ""
       THEN Append(hist, MessageArgument(cmd))
  ELSE IF StartsWith(cmd, "git filter-branch") /\ Len(hist) >= 2
       THEN [hist EXCEPT ![Len(hist)] = FixCommitMessageNewlines(@)]
  ELSE hist

\* exit status of the shell: `cmd || true` always exits 0
ExitCode(hist, cmd, out) ==
  IF EndsWith(cmd, "|| true") THEN 0
  ELSE IF out.kind # "ok" THEN 1
  ELSE IF StartsWith(cmd, "git commit") /\ MessageArgument(cmd) = "" THEN 1
  ELSE IF StartsWith(cmd, "git filter-branch") /\ Len(hist) < 2 THEN 1
  ELSE 0

\* The state one facade call works on: the process (cwd, dirStack), the
\* session's credentials file, the repository's commits, what the call has
\* done so far, and the error it is unwinding with ("none" while running).
Proc(s, hist) ==
  [cwd |-> cwd, dirStack |-> dirStack, cred |-> credentials[s], hist |-> hist,
   execd |-> <<>>, logs |-> <<>>, results |-> <<>>, pushds |-> 0,
   wrote |-> FALSE, ret |-> <<>>, error |-> "none"]

\* sh.pushd('-q', dir)
pushd(p, dir) ==
  [p EXCEPT !.dirStack = <<p.cwd>> \o @, !.cwd = dir, !.pushds = @ + 1]

\* a plausible slip: no `finally`, the directory is restored on return only
popdOnReturnOnly(p) ==
  IF p.error # "none" \/ Len(p.dirStack) = 0 THEN p
  ELSE [p EXCEPT !.cwd = Head(p.dirStack), !.dirStack = Tail(@)]

\* sh.popd('-q') of the finally block
popd(p) ==
  IF Len(p.dirStack) = 0 THEN p
  ELSE [p EXCEPT !.cwd = Head(p.dirStack), !.dirStack = Tail(@)]

\* a plausible slip: the guard is missing
NeverDestroyed(s) == FALSE

\* the guard of execInRepo
IsDestroyed(s) == destroyed[s]

\* the lines of stdout that are logged
LoggedLines(stdout) ==
  LET kept == SelectSeq(Split(stdout, "\n"), LAMBDA line : Trim(line) # "")
  IN [i \in 1..Len(kept) |-> "GIT: " \o kept[i]]

EnvVarStr(envVars) ==
  IF Len(envVars) = 0 THEN ""
  ELSE " (" \o Join([i \in 1..Len(envVars) |->
                       envVars[i][1] \o "=\"" \o envVars[i][2] \o "\""], ", ")
            \o ")"

\* a plausible slip: a non-zero exit status is raised as an error
shExecThrowing(p, cmd, envVars, out) ==
  LET code == ExitCode(p.hist, cmd, out)
      q == [p EXCEPT !.execd = Append(@, [cmd |-> cmd, env |-> envVars]),
                     !.hist = GitTool(@, cmd, out)]
  IN IF code # 0 THEN [q EXCEPT !.error = "thrown"]
     ELSE [q EXCEPT !.results = Append(@, [stdout |-> out.stdout, code |-> code]),
                    !.logs = @ \o LoggedLines(out.stdout)]

\* sh.exec(cmd, {env, silent: true}) and the logging of its output
shExec(p, cmd, envVars, out) ==
  [p EXCEPT !.execd = Append(@, [cmd |-> cmd, env |-> envVars]),
            !.hist = GitTool(@, cmd, out),
            !.results = Append(@, [stdout |-> out.stdout,
                                   code |-> ExitCode(p.hist, cmd, out)]),
            !.logs = @ \o LoggedLines(out.stdout)]

\* the try block of execInRepo, after pushd
TryBlock(p, partialCmd, cmdOpts, envVars, out) ==
  LET cmd == withOptions(Trim(partialCmd), cmdOpts)
  IN IF out.kind \in {"throwBuild", "throwLog"} THEN [p EXCEPT !.error = "thrown"]
     ELSE LET q == [p EXCEPT !.logs = Append(@, "GIT: " \o cmd \o EnvVarStr(envVars))]
          IN IF out.kind = "throwExec"
             THEN [q EXCEPT !.error = "thrown",
                            !.execd = Append(@, [cmd |-> cmd, env |-> envVars])]
             ELSE shExec(q, cmd, envVars, out)

\* execInRepo; a call made while an error unwinds is never reached.  outs is
\* what the environment does with the commands of this facade call, in order.
execInRepo(p, s, partialCmd, cmdOpts, envVars, outs) ==
  IF p.error # "none" THEN p
  ELSE IF IsDestroyed(s) THEN [p EXCEPT !.error = "destroyed"]
  ELSE popd(TryBlock(pushd(p, directory(s)), partialCmd, cmdOpts, envVars,
                     outs[Len(p.execd) + 1]))

\* the value of the last execInRepo call
LastResult(p) == p.results[Len(p.results)]

----------------------------------------------------------------------------
(* The facade operations.  An argument of an overloaded position is a      *)
(* string, an options object or undefined.                                 *)

Str(x) == [type |-> "string", str |-> x, opts |-> NoOpts]
Obj(o) == [type |-> "object", str |-> "", opts |-> o]
Undef == [type |-> "undefined", str |-> "", opts |-> NoOpts]

FIX_COMMIT_MESSAGE_NEWLINES_SCRIPT_PATH == "/lib/utils/fix-commit-message-newlines.js"

\* get currentBranch: the call; CurrentBranchValue is what it returns
currentBranch(p, s, outs) ==
  LET q == execInRepo(p, s, "git rev-parse --abbrev-ref HEAD", NoOpts, <<>>, outs)
  IN IF q.error = "none" THEN [q EXCEPT !.ret = <<Trim(LastResult(q).stdout)>>] ELSE q

addRemote(p, s, name, url, outs) ==
  LET p1 == execInRepo(p, s, "git remote remove " \o name \o " || true",
                       NoOpts, <<>>, outs)
  IN execInRepo(p1, s, "git remote add " \o name \o " " \o url, NoOpts, <<>>, outs)

checkout(p, s, ref, opts, outs) ==
  execInRepo(p, s, "git checkout " \o ref, opts, <<>>, outs)

\* a plausible slip: the message is not trimmed
TempMsgArgUntrimmed(msg) ==
  "\"" \o Join(SplitLines(msg), NEWLINE_PLACEHOLDER) \o "\""

\* the preprocessed message of commit
TempMsgArg(msg) ==
  "\"" \o Join(SplitLines(Trim(msg)), NEWLINE_PLACEHOLDER) \o "\""

commit(p, s, msg, opts, outs) ==
  LET p1 == execInRepo(p, s, "git commit",
                       SetOpt(opts, Opt("message", "string", <<TempMsgArg(msg)>>)),
                       <<>>, outs)
  IN execInRepo(p1, s,
                "git filter-branch --msg-filter \"node "
                  \o FIX_COMMIT_MESSAGE_NEWLINES_SCRIPT_PATH \o "\" @~1..@",
                NoOpts, <<<<"FILTER_BRANCH_SQUELCH_WARNING", "1">>>>, outs)

config(p, s, key, value, outs) ==
  execInRepo(p, s, "git config " \o key \o " " \o value, NoOpts, <<>>, outs)

\* a plausible slip: the two-string call uses the given name on both sides
ResolvePushBothSides(a2, a3, a4, cur) ==
  IF a2.type # "string"
  THEN [opts |-> a2.opts, localBranch |-> cur, remoteBranch |-> cur]
  ELSE IF a3.type # "string"
  THEN [opts |-> a3.opts, localBranch |-> a2.str, remoteBranch |-> a2.str]
  ELSE [opts |-> a4.opts, localBranch |-> a2.str, remoteBranch |-> a3.str]

\* the overload resolution of push; cur is this.currentBranch
ResolvePush(a2, a3, a4, cur) ==
  IF a2.type # "string"
  THEN [opts |-> a2.opts, localBranch |-> cur, remoteBranch |-> cur]
  ELSE IF a3.type # "string"
  THEN [opts |-> a3.opts, localBranch |-> cur, remoteBranch |-> a2.str]
  ELSE [opts |-> a4.opts, localBranch |-> a2.str, remoteBranch |-> a3.str]

push(p, s, remote, a2, a3, a4, outs) ==
  LET readsCurrent == a2.type # "string" \/ a3.type # "string"
      p1 == IF readsCurrent THEN currentBranch(p, s, outs) ELSE p
      cur == IF readsCurrent /\ p1.error = "none" THEN p1.ret[1] ELSE ""
      r == ResolvePush(a2, a3, a4, cur)
      p2 == execInRepo([p1 EXCEPT !.ret = <<>>], s,
                       "git push " \o remote \o " " \o r.localBranch
                         \o ":" \o r.remoteBranch,
                       r.opts, <<>>, outs)
  IN p2

deleteRemoteBranch(p, s, remote, branch, opts, outs) ==
  push(p, s, remote, Str(""), Str(branch), Undef, outs)

fetch(p, s, remote, a2, a3, outs) ==
  LET branch == IF a2.type # "string" THEN "" ELSE a2.str
      opts == IF a2.type # "string" THEN a2.opts ELSE a3.opts
  IN execInRepo(p, s, "git fetch " \o remote \o " " \o branch, opts, <<>>, outs)

\* new RegExp(`^${remote}/`): the atoms of the pattern.  The pattern
\* characters that occur in the model are literals and the quantifier +.
RECURSIVE Atoms(_)
Atoms(pat) ==
  IF Len(pat) = 0 THEN <<>>
  ELSE IF Len(pat) >= 2 /\ Char(pat, 2) = "+"
       THEN <<[ch |-> Char(pat, 1), plus |-> TRUE]>> \o Atoms(SubSeq(pat, 3, Len(pat)))
       ELSE <<[ch |-> Char(pat, 1), plus |-> FALSE]>> \o Atoms(SubSeq(pat, 2, Len(pat)))

\* number of consecutive characters ch of s from position j on
RECURSIVE RunLength(_, _, _)
RunLength(s, ch, j) ==
  IF j <= Len(s) /\ Char(s, j) = ch THEN 1 + RunLength(s, ch, j + 1) ELSE 0

\* the position after the match of atoms[i..] at position j of s (0: no
\* match); a quantified atom is greedy and gives characters back
RECURSIVE MatchAt(_, _, _, _), MatchPlus(_, _, _, _, _)
MatchAt(atoms, i, s, j) ==
  IF i > Len(atoms) THEN j
  ELSE IF atoms[i].plus THEN MatchPlus(atoms, i, s, j, RunLength(s, atoms[i].ch, j))
  ELSE IF j <= Len(s) /\ Char(s, j) = atoms[i].ch THEN MatchAt(atoms, i + 1, s, j + 1)
  ELSE 0

MatchPlus(atoms, i, s, j, k) ==
  IF k < 1 THEN 0
  ELSE LET e == MatchAt(atoms, i + 1, s, j + k)
       IN IF e # 0 THEN e ELSE MatchPlus(atoms, i, s, j, k - 1)

\* line.replace(new RegExp(`^${remote}/`), '')
RemovePrefix(line, remote) ==
  LET e == MatchAt(Atoms(remote \o "/"), 1, line, 1)
  IN IF e = 0 THEN line ELSE SubSeq(line, e, Len(line))

\* the return value of getRemoteBranches
BranchesOf(branchesOutput, remote) ==
  LET lines == Split(branchesOutput, "\n")
      trimmed == [i \in 1..Len(lines) |-> Trim(lines[i])]
      kept == SelectSeq(trimmed, LAMBDA line : StartsWith(line, remote \o "/"))
  IN [i \in 1..Len(kept) |-> RemovePrefix(kept[i], remote)]

getRemoteBranches(p, s, remote, outs) ==
  LET p1 == fetch(p, s, remote,
                  Obj(<<Opt("depth", "string", <<"1">>), Opt("no-tags", "true", <<>>)>>),
                  Undef, outs)
      p2 == execInRepo(p1, s, "git branch", <<Opt("remote", "true", <<>>)>>, <<>>, outs)
  IN IF p2.error = "none"
     THEN [p2 EXCEPT !.ret = BranchesOf(LastResult(p2).stdout, remote)]
     ELSE p2

init(p, s, opts, outs) == execInRepo(p, s, "git init", opts, <<>>, outs)

\* ghToken "" stands for a call without a token
setUserInfo(p, s, name, email, ghToken, outs) ==
  LET p1 == config(p, s, "user.name", "\"" \o name \o "\"", outs)
      p2 == config(p1, s, "user.email", "\"" \o email \o "\"", outs)
  IN IF p2.error # "none" \/ ghToken = "" THEN p2
     ELSE config([p2 EXCEPT !.cred = "https://" \o ghToken \o ":@github.com",
                            !.wrote = TRUE],
                 s, "credential.helper",
                 "\"store --file=" \o credentialsPath(s) \o "\"", outs)

stage(p, s, files, opts, outs) ==
  execInRepo(p, s, "git add", SetOpt(opts, Opt(ARGS_KEY, "list", files)), <<>>, outs)

\* a plausible slip: destroy without its guard
destroyUnguarded(st, s) ==
  [destroyed |-> [st.destroyed EXCEPT ![s] = TRUE],
   removals |-> [st.removals EXCEPT ![s] = @ + 1],
   credentials |-> [st.credentials EXCEPT ![s] = ""]]

\* destroy, on the flags, the removals done and the files; the credentials
\* file lies under the directory that sh.rm('-rf', ...) removes
destroy(st, s) ==
  IF ~st.destroyed[s]
  THEN [destroyed |-> [st.destroyed EXCEPT ![s] = TRUE],
        removals |-> [st.removals EXCEPT ![s] = @ + 1],
        credentials |-> [st.credentials EXCEPT ![s] = ""]]
  ELSE st

----------------------------------------------------------------------------
(* The calls of a host program *)

Ok(stdout) == [kind |-> "ok", stdout |-> stdout]
NonZero == [kind |-> "nonzero", stdout |-> ""]

\* what a command prints: some output, and for rev-parse a branch name
Printed == {"done\n"}
BranchPrinted == {"main\n", " feat \n\n"}

Throwing == {[kind |-> k, stdout |-> ""] : k \in Throws}

\* what the environment does with the up to n commands of one call: nothing
\* runs after a command that raised
RECURSIVE OutcomeSeqs(_, _)
OutcomeSeqs(n, stdouts) ==
  IF n = 0 THEN {<<>>}
  ELSE {<<t>> : t \in Throwing}
       \cup {<<a>> \o rest : a \in {Ok(x) : x \in stdouts} \cup {NonZero},
                             rest \in OutcomeSeqs(n - 1, stdouts)}

NoCall ==
  [op |-> "new", s |-> "s1", args |-> <<>>, opts |-> NoOpts,
   destroyedBefore |-> FALSE, error |-> "none", execd |-> <<>>, logs |-> <<>>,
   results |-> <<>>, pushds |-> 0, wrote |-> FALSE, ret |-> <<>>,
   histBefore |-> <<>>, histAfter |-> <<>>, outs |-> <<>>]

NoInput == [cmd |-> "", opts |-> NoOpts]

\* the call returns or throws, leaving p behind; outs is what the environment
\* did with its commands
Return(op, s, args, opts, hist, outs, p) ==
  /\ last' = [op |-> op, s |-> s, args |-> args, opts |-> opts,
              destroyedBefore |-> destroyed[s], error |-> p.error,
              execd |-> p.execd, logs |-> p.logs, results |-> p.results,
              pushds |-> p.pushds, wrote |-> p.wrote, ret |-> p.ret,
              histBefore |-> hist, histAfter |-> p.hist,
              outs |-> IF destroyed[s] THEN <<>> ELSE outs]
  /\ cwd' = p.cwd
  /\ dirStack' = p.dirStack
  /\ credentials' = [credentials EXCEPT ![s] = p.cred]
  /\ UNCHANGED <<destroyed, removals, input, rendered>>

MainOpts == {NoOpts, <<Opt("f", "true", <<>>)>>}
MainMsg == "line1\nline2"
MainHist == <<"first", "second">>
Tokens == {"", "tok"}

DoCurrentBranch(s) ==
  \E outs \in OutcomeSeqs(1, BranchPrinted) :
    Return("currentBranch", s, <<>>, NoOpts, <<>>, outs,
           currentBranch(Proc(s, <<>>), s, outs))

DoAddRemote(s) ==
  \E outs \in OutcomeSeqs(2, Printed) :
    Return("addRemote", s, <<"upstream", "https://host/repo.git">>, NoOpts, <<>>, outs,
           addRemote(Proc(s, <<>>), s, "upstream", "https://host/repo.git", outs))

DoCheckout(s) ==
  \E opts \in {NoOpts}, outs \in OutcomeSeqs(1, Printed) :
    Return("checkout", s, <<"main">>, opts, <<>>, outs,
           checkout(Proc(s, <<>>), s, "main", opts, outs))

DoCommit(s, msg, opts, hist) ==
  \E outs \in OutcomeSeqs(2, Printed) :
    Return("commit", s, <<msg>>, opts, hist, outs,
           commit(Proc(s, hist), s, msg, opts, outs))

DoConfig(s) ==
  \E outs \in OutcomeSeqs(1, Printed) :
    Return("config", s, <<"core.editor", "vi">>, NoOpts, <<>>, outs,
           config(Proc(s, <<>>), s, "core.editor", "vi", outs))

DoDeleteRemoteBranch(s) ==
  \E opts \in {NoOpts}, outs \in OutcomeSeqs(1, Printed) :
    Return("deleteRemoteBranch", s, <<"origin", "feat">>, opts, <<>>, outs,
           deleteRemoteBranch(Proc(s, <<>>), s, "origin", "feat", opts, outs))

DoFetch(s) ==
  \E opts \in {<<Opt("depth", "string", <<"1">>)>>}, outs \in OutcomeSeqs(1, Printed) :
    \/ Return("fetch", s, <<"origin">>, opts, <<>>, outs,
              fetch(Proc(s, <<>>), s, "origin", Obj(opts), Undef, outs))
    \/ Return("fetch", s, <<"origin", "feat">>, opts, <<>>, outs,
              fetch(Proc(s, <<>>), s, "origin", Str("feat"), Obj(opts), outs))

DoGetRemoteBranches(s, remote, outs) ==
  Return("getRemoteBranches", s, <<remote>>, NoOpts, <<>>, outs,
         getRemoteBranches(Proc(s, <<>>), s, remote, outs))

DoInit(s) ==
  \E opts \in {NoOpts}, outs \in OutcomeSeqs(1, Printed) :
    Return("init", s, <<>>, opts, <<>>, outs, init(Proc(s, <<>>), s, opts, outs))

DoPush(s) ==
  \E opts \in MainOpts :
    \/ \E outs \in OutcomeSeqs(2, BranchPrinted) :
         Return("push", s, <<"origin">>, opts, <<>>, outs,
                push(Proc(s, <<>>), s, "origin", Obj(opts), Undef, Undef, outs))
    \/ \E outs \in OutcomeSeqs(2, BranchPrinted) :
         Return("push", s, <<"origin", "feat">>, opts, <<>>, outs,
                push(Proc(s, <<>>), s, "origin", Str("feat"), Obj(opts), Undef, outs))
    \/ \E outs \in OutcomeSeqs(1, Printed) :
         Return("push", s, <<"origin", "local", "remote">>, opts, <<>>, outs,
                push(Proc(s, <<>>), s, "origin", Str("local"), Str("remote"),
                     Obj(opts), outs))

DoSetUserInfo(s) ==
  \E ghToken \in Tokens :
    \E outs \in OutcomeSeqs(IF ghToken = "" THEN 2 ELSE 3, Printed) :
      Return("setUserInfo", s, <<"Jo", "jo@host", ghToken>>, NoOpts, <<>>, outs,
             setUserInfo(Proc(s, <<>>), s, "Jo", "jo@host", ghToken, outs))

DoStage(s) ==
  \E opts \in MainOpts, outs \in OutcomeSeqs(1, Printed) :
    Return("stage", s, <<"a.txt", "b.txt">>, opts, <<>>, outs,
           stage(Proc(s, <<>>), s, <<"a.txt", "b.txt">>, opts, outs))

DoDestroy(s) ==
  LET st == destroy([destroyed |-> destroyed, removals |-> removals,
                     credentials |-> credentials], s)
  IN /\ destroyed' = st.destroyed
     /\ removals' = st.removals
     /\ credentials' = st.credentials
     /\ last' = [NoCall EXCEPT !.op = "destroy", !.s = s,
                               !.destroyedBefore = destroyed[s]]
     /\ UNCHANGED <<cwd, dirStack, input, rendered>>

Init ==
  /\ destroyed = [s \in Sessions |-> FALSE]
  /\ removals = [s \in Sessions |-> 0]
  /\ credentials = [s \in Sessions |-> ""]
  /\ cwd = "/home"
  /\ dirStack = <<>>
  /\ last = NoCall
  /\ input = NoInput
  /\ rendered = [done |-> FALSE, out |-> ""]

Next ==
  \E s \in Sessions :
    \/ DoCurrentBranch(s)
    \/ DoAddRemote(s)
    \/ DoCheckout(s)
    \/ DoCommit(s, MainMsg, NoOpts, MainHist)
    \/ DoConfig(s)
    \/ DoDeleteRemoteBranch(s)
    \/ DoFetch(s)
    \/ \E outs \in OutcomeSeqs(2, Printed) : DoGetRemoteBranches(s, "origin", outs)
    \/ DoInit(s)
    \/ DoPush(s)
    \/ DoSetUserInfo(s)
    \/ DoStage(s)
    \/ DoDestroy(s)

Spec == Init /\ [][Next]_vars

----------------------------------------------------------------------------
(* commit on its own: every message and every history *)

MsgAlphabet == {"a", " ", "\n", "\r", NEWLINE_PLACEHOLDER}

RECURSIVE MsgsUpTo(_)
MsgsUpTo(n) ==
  IF n = 0 THEN {""}
  ELSE LET shorter == MsgsUpTo(n - 1)
       IN shorter \cup {m \o c : m \in shorter, c \in MsgAlphabet}

HistMsgs == {"old", "o" \o NEWLINE_PLACEHOLDER \o "d"}

RECURSIVE HistsUpTo(_)
HistsUpTo(n) ==
  IF n = 0 THEN {<<>>}
  ELSE LET shorter == HistsUpTo(n - 1)
       IN shorter \cup {Append(h, m) : h \in shorter, m \in HistMsgs}

InitCommit ==
  /\ destroyed = [s \in Sessions |-> FALSE]
  /\ removals = [s \in Sessions |-> 0]
  /\ credentials = [s \in Sessions |-> ""]
  /\ cwd = "/home"
  /\ dirStack = <<>>
  /\ last = NoCall
  /\ input \in {[msg |-> m, hist |-> h] : m \in MsgsUpTo(MaxLen), h \in HistsUpTo(MaxHist)}
  /\ rendered = [done |-> FALSE, out |-> ""]

NextCommit == last.op = "new" /\ DoCommit("s1", input.msg, NoOpts, input.hist)

SpecCommit == InitCommit /\ [][NextCommit]_vars

----------------------------------------------------------------------------
(* getRemoteBranches on its own: every listing of up to MaxLines lines *)

ListingLines ==
  {"  origin/main", "  origin/dev", "  upstream/main", "", "  o+/x", "  oo/x"}

RemoteNames == {"origin", "upstream", "o+"}

RECURSIVE ListingsUpTo(_)
ListingsUpTo(n) ==
  IF n = 0 THEN {<<>>}
  ELSE LET shorter == ListingsUpTo(n - 1)
       IN shorter \cup {Append(l, x) : l \in shorter, x \in ListingLines}

InitBranches ==
  /\ destroyed = [s \in Sessions |-> FALSE]
  /\ removals = [s \in Sessions |-> 0]
  /\ credentials = [s \in Sessions |-> ""]
  /\ cwd = "/home"
  /\ dirStack = <<>>
  /\ last = NoCall
  /\ input \in {[remote |-> r, lines |-> l] :
                  r \in RemoteNames, l \in ListingsUpTo(MaxLines)}
  /\ rendered = [done |-> FALSE, out |-> ""]

NextBranches ==
  /\ last.op = "new"
  /\ \E o1 \in {Ok(""), NonZero} :
       DoGetRemoteBranches("s1", input.remote,
                           <<o1, Ok(Join(input.lines, "\n") \o "\n")>>)

SpecBranches == InitBranches /\ [][NextBranches]_vars

----------------------------------------------------------------------------
(* withOptions on its own: every options object over three keys *)

ListElems == {"a", "b "}

RECURSIVE ListsUpTo(_)
ListsUpTo(n) ==
  IF n = 0 THEN {<<>>}
  ELSE LET shorter == ListsUpTo(n - 1)
       IN shorter \cup {Append(l, x) : l \in shorter, x \in ListElems}

FlagValues ==
  {[kind |-> "true", val |-> <<>>], [kind |-> "false", val |-> <<>>],
   [kind |-> "undefined", val |-> <<>>]}
  \cup {[kind |-> "string", val |-> <<s>>] : s \in {"", "v", "v "}}
  \cup {[kind |-> "list", val |-> l] : l \in ListsUpTo(MaxList)}

ArgsValues ==
  {[kind |-> "undefined", val |-> <<>>]}
  \cup {[kind |-> "list", val |-> l] : l \in ListsUpTo(MaxList)}

ValuesOf(key) == IF key = ARGS_KEY THEN ArgsValues ELSE FlagValues

OptionKeys == {"x", "name", ARGS_KEY}

RECURSIVE OptionObjects(_)
OptionObjects(keys) ==
  {<<>>} \cup
  UNION {{<<Opt(k, v.kind, v.val)>> \o rest : v \in ValuesOf(k),
                                          rest \in OptionObjects(keys \ {k})}
         : k \in keys}

BaseCommands == {"git add", "git fetch origin"}

InitOptions ==
  /\ destroyed = [s \in Sessions |-> FALSE]
  /\ removals = [s \in Sessions |-> 0]
  /\ credentials = [s \in Sessions |-> ""]
  /\ cwd = "/home"
  /\ dirStack = <<>>
  /\ last = NoCall
  /\ input \in {[cmd |-> cmd, opts |-> opts] :
                  cmd \in BaseCommands, opts \in OptionObjects(OptionKeys)}
  /\ rendered = [done |-> FALSE, out |-> ""]

render ==
  /\ ~rendered.done
  /\ rendered' = [done |-> TRUE, out |-> withOptions(input.cmd, input.opts)]
  /\ UNCHANGED <<destroyed, removals, credentials, cwd, dirStack, last, input>>

NextOptions == render

SpecOptions == InitOptions /\ [][NextOptions]_vars

----------------------------------------------------------------------------
(* Claims about withOptions (SpecOptions) *)

Falsy(e) == e.kind \in {"false", "undefined"}

WithoutFalsy(opts) == SelectSeq(opts, LAMBDA e : ~Falsy(e))

\* C7: a flag whose value is false or undefined is never rendered: neither
\* -k nor --k appears for such a key k, and the command string is the one
\* withOptions returns for the object with those keys left out.
C7_FalsyNeverRendered ==
  rendered.done =>
    /\ rendered.out = withOptions(input.cmd, WithoutFalsy(input.opts))
    /\ \A i \in 1..Len(input.opts) :
         Falsy(input.opts[i]) =>
           ~Contains(rendered.out, FlagName(input.opts[i].key))

\* C7 witness: an object with a false flag, an undefined flag and trailing
\* arguments has been rendered.
C7_Witness ==
  /\ rendered.done
  /\ \E i, j, k \in 1..Len(input.opts) :
       /\ input.opts[i].kind = "false"
       /\ input.opts[j].kind = "undefined"
       /\ input.opts[k].kind = "list" /\ input.opts[k].key = ARGS_KEY

\* the retained flags of an object, in iteration order
RetainedFlags(opts) ==
  SelectSeq(opts, LAMBDA e : e.key # ARGS_KEY /\ ~Falsy(e))

ClaimedFlag(key) == IF Len(key) = 1 THEN "-" \o key ELSE "--" \o key

\* C8 as stated: the renderings of a flag, one per value
ClaimedPieces(e) ==
  CASE e.kind = "true" -> <<ClaimedFlag(e.key)>>
    [] e.kind = "string" -> <<ClaimedFlag(e.key) \o " " \o e.val[1]>>
    [] OTHER -> [i \in 1..Len(e.val) |-> ClaimedFlag(e.key) \o " " \o e.val[i]]

\* C8 as amended: each `flag value` pair is trimmed
AmendedPieces(e) ==
  CASE e.kind = "true" -> <<ClaimedFlag(e.key)>>
    [] e.kind = "string" -> <<Trim(ClaimedFlag(e.key) \o " " \o e.val[1])>>
    [] OTHER -> [i \in 1..Len(e.val) |-> Trim(ClaimedFlag(e.key) \o " " \o e.val[i])]

\* the flags after the base command: each flag's renderings separated by
\* single spaces, the flags separated by single spaces
FlagsPart(flags, Pieces(_)) ==
  IF Len(flags) = 0 THEN ""
  ELSE " " \o Join([i \in 1..Len(flags) |-> Join(Pieces(flags[i]), " ")], " ")

\* the trailing arguments: a literal -- and the values, space-joined
ClaimedArgs(opts) ==
  LET a == SelectSeq(opts, LAMBDA e : e.key = ARGS_KEY /\ ~Falsy(e))
  IN IF Len(a) = 0 THEN "" ELSE " -- " \o Join(a[1].val, " ")

\* C8 (as stated): withOptions returns the base command followed by the
\* retained flags in iteration order, separated by single spaces: a true flag
\* bare, a string value as `flag value`, a list value as `flag element` once
\* per element; then, when '--' is present, ` -- ` and its values.
C8_AsStated ==
  rendered.done =>
    rendered.out = input.cmd
                   \o FlagsPart(RetainedFlags(input.opts), ClaimedPieces)
                   \o ClaimedArgs(input.opts)

\* C8 (amended): the same, where each `flag value` pair is trimmed: an empty
\* string value gives the bare flag and whitespace at the end of a value is
\* dropped.
C8_Amended ==
  rendered.done =>
    rendered.out = input.cmd
                   \o FlagsPart(RetainedFlags(input.opts), AmendedPieces)
                   \o ClaimedArgs(input.opts)

\* C8 witness: a one-letter true flag, a two-element list flag and trailing
\* arguments placed first in the object have been rendered.
C8_Witness ==
  /\ rendered.done
  /\ Len(input.opts) = 3
  /\ input.opts[1].key = ARGS_KEY /\ input.opts[1].val = <<"b ", "a">>
  /\ input.opts[2].key = "name" /\ input.opts[2].val = <<"b ", "a">>
  /\ input.opts[3].key = "x" /\ input.opts[3].kind = "true"
  /\ rendered.out = input.cmd \o " --name b --name a -x -- b  a"

----------------------------------------------------------------------------
(* Claims about sessions (Spec) *)

\* C1: once destroy() has been called on a session, every later call of
\* another operation on it fails with the 'already destroyed' error before
\* any effect: no command is executed, nothing is logged, no credentials file
\* is written and the working directory is not changed (no pushd).
C1_DestroyedFailsFast ==
  /\ (last.destroyedBefore /\ last.op \notin {"new", "destroy"}) =>
       /\ last.error = "destroyed"
       /\ last.execd = <<>>
       /\ last.logs = <<>>
       /\ last.results = <<>>
       /\ last.ret = <<>>
       /\ ~last.wrote
       /\ last.pushds = 0
  /\ \A s \in Sessions : destroyed[s] => credentials[s] = ""

\* C1 witness: setUserInfo with a token has been called on a destroyed
\* session and has failed.
C1_Witness ==
  /\ last.op = "setUserInfo"
  /\ last.args[3] = "tok"
  /\ last.destroyedBefore
  /\ last.error = "destroyed"

\* C2: the working directory and the directory stack after each operation
\* are what they were before it, on every exit path of execInRepo.
C2_DirectoryRestored == [][cwd' = cwd /\ dirStack' = dirStack]_vars

\* C2 witness: an operation has changed into the session's directory and has
\* then been aborted by an exception, after a command with a non-zero exit.
C2_Witness ==
  /\ last.error = "thrown"
  /\ last.pushds = 2
  /\ last.results[1].code # 0
  /\ cwd = "/home"

\* the command of the last execInRepo call of the operation
LastCmd == last.execd[Len(last.execd)].cmd

\* a push with two string arguments has run to its end
TwoStringPush ==
  last.op = "push" /\ Len(last.args) = 2 /\ last.error = "none"

\* C3 (as stated): push(r, b) runs `git push r b:b`.
C3_AsStated ==
  TwoStringPush =>
    LastCmd = withOptions("git push " \o last.args[1] \o " " \o last.args[2]
                            \o ":" \o last.args[2], last.opts)

\* C3 (amended): push(r, b) first reads the current branch c (the trimmed
\* output of `git rev-parse --abbrev-ref HEAD`) and then runs
\* `git push r c:b`: the given name is the remote side only.
C3_Amended ==
  TwoStringPush =>
    /\ Len(last.execd) = 2
    /\ last.execd[1].cmd = "git rev-parse --abbrev-ref HEAD"
    /\ LastCmd = withOptions("git push " \o last.args[1] \o " "
                               \o Trim(last.results[1].stdout)
                               \o ":" \o last.args[2], last.opts)

\* C3 witness: push("origin", "feat", {f: true}) on branch main has run
\* `git push origin main:feat -f`.
C3_Witness ==
  /\ TwoStringPush
  /\ last.args = <<"origin", "feat">>
  /\ last.results[1].stdout = "main\n"
  /\ LastCmd = "git push origin main:feat -f"

\* C5: the destroyed flag only changes from false to true and only in
\* destroy(); the directory is removed at most once, by the first destroy();
\* a later destroy() removes nothing, changes no state and raises no error.
C5_DestroyOnce ==
  [][\A s \in Sessions :
       LET byDestroy == last'.op = "destroy" /\ last'.s = s
       IN /\ destroyed[s] => destroyed'[s]
          /\ destroyed'[s] # destroyed[s] => byDestroy
          /\ removals'[s] <= 1
          /\ removals'[s] # removals[s] => (byDestroy /\ ~destroyed[s])
          /\ (byDestroy /\ destroyed[s]) =>
               /\ UNCHANGED <<destroyed, removals, credentials, cwd, dirStack>>
               /\ last'.error = "none"]_vars

\* C5 witness: destroy() has been called on a destroyed session.
C5_Witness ==
  /\ last.op = "destroy"
  /\ last.destroyedBefore
  /\ destroyed[last.s]
  /\ removals[last.s] = 1

\* the commands an operation issues, as the prefixes of the command strings
Steps ==
  CASE last.op = "addRemote" ->
         <<"git remote remove " \o last.args[1] \o " || true",
           "git remote add " \o last.args[1] \o " " \o last.args[2]>>
    [] last.op = "commit" -> <<"git commit", "git filter-branch">>
    [] last.op = "getRemoteBranches" -> <<"git fetch", "git branch">>
    [] last.op = "push" /\ Len(last.args) < 3 -> <<"git rev-parse", "git push">>
    [] last.op = "setUserInfo" /\ last.args[3] # "" ->
         <<"git config user.name", "git config user.email",
           "git config credential.helper">>
    [] last.op = "setUserInfo" ->
         <<"git config user.name", "git config user.email">>
    [] last.op \in {"new", "destroy"} -> <<>>
    [] OTHER -> <<"git ">>

\* C6: on a session that is not destroyed a non-zero exit status is never
\* raised: unless the environment raises an exception, the operation ends
\* without error, every command of it has been issued, in order, and each
\* has returned its captured result; addRemote issues the remove step and
\* then the add step.
C6_NonZeroNotRaised ==
  (/\ ~last.destroyedBefore
   /\ \A i \in 1..Len(last.outs) : last.outs[i].kind \notin Throws) =>
    /\ last.error = "none"
    /\ Len(last.execd) = Len(Steps)
    /\ Len(last.results) = Len(Steps)
    /\ \A i \in 1..Len(Steps) :
         /\ StartsWith(last.execd[i].cmd, Steps[i])
         /\ last.results[i].stdout = last.outs[i].stdout
         /\ last.outs[i].kind = "ok" => last.results[i].code = 0
    /\ last.op = "addRemote" =>
         /\ last.execd[1].cmd = Steps[1]
         /\ last.execd[2].cmd = Steps[2]

\* C6 witness: the first command of a commit has exited with a non-zero
\* status and the second one has been issued.
C6_Witness ==
  /\ last.op = "commit"
  /\ last.error = "none"
  /\ last.results[1].code # 0
  /\ Len(last.execd) = 2

----------------------------------------------------------------------------
(* Claims about commit (SpecCommit) *)

\* both executions of a commit have exited with status 0
CommitAndRewriteDone ==
  /\ last.op = "commit"
  /\ last.error = "none"
  /\ \A i \in 1..2 : last.results[i].code = 0

C10_AsStated ==
  last.op = "commit" =>
    /\ \A i \in 1..Len(last.histBefore) : last.histAfter[i] = last.histBefore[i]
    /\ Len(last.execd) >= 1 => last.execd[1].env = <<>>
    /\ Len(last.execd) = 2 =>
         last.execd[2].env = <<<<"FILTER_BRANCH_SQUELCH_WARNING", "1">>>>

----------------------------------------------------------------------------
(* Claims about getRemoteBranches (SpecBranches) *)

\* the listing lines of the remote, trimmed, without the prefix `remote/`
RECURSIVE ExpectedBranches(_, _)
ExpectedBranches(lines, remote) ==
  IF Len(lines) = 0 THEN <<>>
  ELSE LET line == Trim(lines[1])
           prefix == remote \o "/"
       IN (IF StartsWith(line, prefix)
           THEN <<SubSeq(line, Len(prefix) + 1, Len(line))>>
           ELSE <<>>) \o ExpectedBranches(Tail(lines), remote)

\* C9: getRemoteBranches(remote) issues the shallow fetch and then the
\* listing, and returns, in order, the listing lines that after trimming
\* start with `remote/`, each without that prefix.
C9_AsStated ==
  (last.op = "getRemoteBranches" /\ last.error = "none") =>
    /\ last.execd[1].cmd = "git fetch " \o last.args[1] \o " --depth 1 --no-tags"
    /\ last.execd[2].cmd = "git branch --remote"
    /\ last.ret = ExpectedBranches(input.lines, last.args[1])
====
